---- MODULE Spec2Model ----
(***************************************************************************)
(* Model of the PlantCare agent (agents-starter/src/server.ts) and of the  *)
(* tool layer that drives it (tools.ts, kept as src/unnamed/part_001).     *)
(*                                                                         *)
(* State: the three SQL tables created by initializeDatabase, the wall     *)
(* clock, the generateId() source, the calls handed to the framework's     *)
(* schedule() and the value the last operation returned; and the state of  *)
(* the PlantBook component (components/plant-book/PlantBook.tsx), which    *)
(* pages through the plants it fetched from /api/plants.                   *)
(*                                                                         *)
(* Each tool's execute() runs without an await between its getPlant guard  *)
(* and its writes, so one tool call is one atomic action.                  *)
(*                                                                         *)
(* Storage: the tables are declared with FOREIGN KEY ... ON DELETE CASCADE *)
(* (server.ts:54, 68) and removePlant relies on it (server.ts:202); the    *)
(* model applies the cascade as declared.                                  *)
(***************************************************************************)
EXTENDS Integers, Sequences, FiniteSets, TLC

VARIABLES plants, watering_history, health_issues, now, idCounter,
          scheduled, last,
          bookPlants, currentPage, isFlipping, flipTimer

\* the state of the PlantBook component: the plants it fetched last, the page
\* it shows, whether a flip is under way and the pending setTimeout callback
book == <<bookPlants, currentPage, isFlipping, flipTimer>>

vars == <<plants, watering_history, health_issues, now, idCounter,
          scheduled, last, book>>

\* ------------------------------------------------------------------ bounds
MaxIds == 3            \* generateId() is called at most this many times
MaxPlants == 2         \* rows the plants table holds at most
MaxTime == 2           \* the clock stops advancing here
MaxSchedules == 1      \* calls to the framework's schedule() that are kept

\* ------------------------------------------------------- program constants
DefaultWaterFrequencyDays == 7
DefaultLimit == 10
TicksPerDay == 2       \* clock resolution of the model: half a day per tick

\* ------------------------------------------------------------ SQL / JS values
\* A nullable column holds NULL or Val(v).
NULL == <<>>
Val(v) == <<v>>

\* `x || null` on an optional string argument: undefined and "" become NULL.
OrNull(args, k) ==
    IF k \in DOMAIN args /\ args[k] # "" THEN Val(args[k]) ELSE NULL

\* `x || 7` on an optional number argument: undefined and 0 become 7.
OrDefault(args, k, d) ==
    IF k \in DOMAIN args /\ args[k] # 0 THEN args[k] ELSE d

Ids == 1..MaxIds

RECURSIVE SelectSeq2(_, _)
\* rows r of table s (in rowid order) with plant_id = pid
SelectSeq2(s, pid) ==
    IF s = <<>> THEN <<>>
    ELSE IF Head(s).plant_id = pid
         THEN <<Head(s)>> \o SelectSeq2(Tail(s), pid)
         ELSE SelectSeq2(Tail(s), pid)

RECURSIVE DeleteWhere(_, _)
\* table s without the rows whose plant_id is pid
DeleteWhere(s, pid) ==
    IF s = <<>> THEN <<>>
    ELSE IF Head(s).plant_id = pid
         THEN DeleteWhere(Tail(s), pid)
         ELSE <<Head(s)>> \o DeleteWhere(Tail(s), pid)

RECURSIVE InsertByKey(_, _)
\* stable insertion of the keyed row r into s, which is sorted by key
InsertByKey(r, s) ==
    IF s = <<>> THEN <<r>>
    ELSE IF r.key < Head(s).key THEN <<r>> \o s
         ELSE <<Head(s)>> \o InsertByKey(r, Tail(s))

RECURSIVE SortByKey(_)
SortByKey(s) ==
    IF s = <<>> THEN <<>>
    ELSE InsertByKey(s[Len(s)], SortByKey(SubSeq(s, 1, Len(s) - 1)))

\* ORDER BY key ASC over keyed rows [row, key]; rows with equal keys keep
\* rowid order
OrderBy(keyed) ==
    LET sorted == SortByKey(keyed)
    IN  [i \in 1..Len(keyed) |-> sorted[i].row]

\* LIMIT n: a negative n means no limit in SQLite
Limit(s, n) == IF n < 0 \/ n >= Len(s) THEN s ELSE SubSeq(s, 1, n)

\* ------------------------------------------------------------ PlantCare
\* SELECT * FROM plants WHERE id = ?  ->  result[0] || null
getPlant(plantId) ==
    LET res == SelectSeq(plants, LAMBDA p : p.id = plantId)
    IN  IF res = <<>> THEN NULL ELSE Val(res[1])

\* SELECT * FROM plants ORDER BY created_at DESC
getPlants ==
    OrderBy([i \in 1..Len(plants) |->
                [row |-> plants[i], key |-> 0 - plants[i].created_at]])

\* INSERT INTO plants (...) VALUES (...); last_watered defaults to NULL and
\* created_at to CURRENT_TIMESTAMP
addPlant(plant) ==
    Append(plants,
           [id |-> plant.id,
            name |-> plant.name,
            type |-> plant.type,
            location |-> OrNull(plant, "location"),
            light_requirement |-> OrNull(plant, "lightRequirement"),
            water_frequency_days |->
                OrDefault(plant, "waterFrequencyDays", DefaultWaterFrequencyDays),
            last_watered |-> NULL,
            notes |-> OrNull(plant, "notes"),
            created_at |-> now])

\* mutant: the UPDATE of last_watered is left out
SetLastWatered_Skipped(tbl, plantId, t) == tbl

\* UPDATE plants SET last_watered = ? WHERE id = ?
SetLastWatered(tbl, plantId, t) ==
    [i \in 1..Len(tbl) |->
        IF tbl[i].id = plantId THEN [tbl[i] EXCEPT !.last_watered = Val(t)]
        ELSE tbl[i]]

\* waterPlant(plantId, notes): the two statements and the returned event
waterPlant(plantId, args) ==
    [history |-> Append(watering_history,
                        [id |-> idCounter + 1,
                         plant_id |-> plantId,
                         watered_at |-> now,
                         notes |-> OrNull(args, "notes")]),
     plants  |-> SetLastWatered(plants, plantId, now),
     result  |-> [wateringId |-> idCounter + 1, plantId |-> plantId,
                  wateredAt |-> now]]

\* getWateringHistory(plantId, limit)
getWateringHistory(plantId, limit) ==
    LET mine == SelectSeq2(watering_history, plantId)
    IN  Limit(OrderBy([i \in 1..Len(mine) |->
                          [row |-> mine[i], key |-> 0 - mine[i].watered_at]]),
              limit)

\* mutant: the row is inserted as resolved
recordHealthIssue_Resolved(plantId, issueDescription) ==
    Append(health_issues,
           [id |-> idCounter + 1, plant_id |-> plantId,
            issue_description |-> issueDescription, diagnosis |-> NULL,
            resolved |-> 1, created_at |-> now, resolved_at |-> NULL])

\* mutant: the description is stored as the diagnosis too
recordHealthIssue_Diagnosed(plantId, issueDescription) ==
    Append(health_issues,
           [id |-> idCounter + 1, plant_id |-> plantId,
            issue_description |-> issueDescription,
            diagnosis |-> Val(issueDescription),
            resolved |-> 0, created_at |-> now, resolved_at |-> NULL])

\* recordHealthIssue(plantId, issueDescription): diagnosis is not passed by
\* any caller; resolved defaults to 0, resolved_at to NULL
recordHealthIssue(plantId, issueDescription) ==
    Append(health_issues,
           [id |-> idCounter + 1,
            plant_id |-> plantId,
            issue_description |-> issueDescription,
            diagnosis |-> NULL,
            resolved |-> 0,
            created_at |-> now,
            resolved_at |-> NULL])

\* getHealthIssues(plantId, includeResolved)
getHealthIssues(plantId, includeResolved) ==
    LET mine == SelectSeq2(health_issues, plantId)
        kept == IF includeResolved THEN mine
                ELSE SelectSeq(mine, LAMBDA h : h.resolved = 0)
    IN  OrderBy([i \in 1..Len(kept) |->
                    [row |-> kept[i], key |-> 0 - kept[i].created_at]])

\* mutant: the `last_watered IS NULL` alternative is left out
NeedsWater_NullExcluded(p) ==
    /\ p.last_watered # NULL
    /\ now - p.last_watered[1] >= p.water_frequency_days * TicksPerDay

\* mutant: > in place of >=
NeedsWater_Strict(p) ==
    \/ p.last_watered = NULL
    \/ now - p.last_watered[1] > p.water_frequency_days * TicksPerDay

\* julianday('now') - julianday(last_watered) >= water_frequency_days, with
\* both instants in ticks and a day being TicksPerDay ticks
NeedsWater(p) ==
    \/ p.last_watered = NULL
    \/ now - p.last_watered[1] >= p.water_frequency_days * TicksPerDay

\* mutant: NULL sorts after every value
LastWateredKey_NullsLast(p) ==
    IF p.last_watered = NULL THEN MaxTime + 1 ELSE p.last_watered[1]

\* ORDER BY last_watered ASC: NULL sorts before every value
LastWateredKey(p) == IF p.last_watered = NULL THEN -1 ELSE p.last_watered[1]

getPlantsNeedingWater ==
    LET due == SelectSeq(plants, NeedsWater)
    IN  OrderBy([i \in 1..Len(due) |->
                    [row |-> due[i], key |-> LastWateredKey(due[i])]])

\* DELETE FROM plants WHERE id = ?
DeletePlant(plantId) == SelectSeq(plants, LAMBDA p : p.id # plantId)

\* mutant: the dependent rows are kept
Cascade_Kept(tbl, plantId) == tbl

\* ON DELETE CASCADE on watering_history.plant_id and health_issues.plant_id
Cascade(tbl, plantId) == DeleteWhere(tbl, plantId)

\* mutant: the UPDATE also resets last_watered
SetFields_LastWateredReset(p, updates) ==
    [p EXCEPT
       !.name = IF "name" \in DOMAIN updates THEN updates.name ELSE @,
       !.type = IF "type" \in DOMAIN updates THEN updates.type ELSE @,
       !.location = IF "location" \in DOMAIN updates
                    THEN Val(updates.location) ELSE @,
       !.light_requirement = IF "lightRequirement" \in DOMAIN updates
                             THEN Val(updates.lightRequirement) ELSE @,
       !.water_frequency_days = IF "waterFrequencyDays" \in DOMAIN updates
                                THEN updates.waterFrequencyDays ELSE @,
       !.notes = IF "notes" \in DOMAIN updates THEN Val(updates.notes) ELSE @,
       !.last_watered = NULL]

\* the SET list updatePlant builds: one assignment per supplied field
SetFields(p, updates) ==
    [p EXCEPT
       !.name = IF "name" \in DOMAIN updates THEN updates.name ELSE @,
       !.type = IF "type" \in DOMAIN updates THEN updates.type ELSE @,
       !.location = IF "location" \in DOMAIN updates
                    THEN Val(updates.location) ELSE @,
       !.light_requirement = IF "lightRequirement" \in DOMAIN updates
                             THEN Val(updates.lightRequirement) ELSE @,
       !.water_frequency_days = IF "waterFrequencyDays" \in DOMAIN updates
                                THEN updates.waterFrequencyDays ELSE @,
       !.notes = IF "notes" \in DOMAIN updates THEN Val(updates.notes) ELSE @]

\* UPDATE plants SET ... WHERE id = ?
UpdateRow(plantId, updates) ==
    [i \in 1..Len(plants) |->
        IF plants[i].id = plantId THEN SetFields(plants[i], updates)
        ELSE plants[i]]

\* ------------------------------------------------------------------ inputs
AddArgs ==
    { [name |-> "Fernie", type |-> "Boston Fern", location |-> "window",
       waterFrequencyDays |-> 1, notes |-> "n"],
      [name |-> "Ivy", type |-> "Ivy", location |-> ""],
      [name |-> "", type |-> "Fern", waterFrequencyDays |-> 2],
      [name |-> "Rex", type |-> "", waterFrequencyDays |-> -1],
      [name |-> "Moss", type |-> "Moss", lightRequirement |-> "low",
       waterFrequencyDays |-> 0] }

StoreAddArgs ==
    { [name |-> "Fernie", type |-> "Boston Fern", location |-> "window",
       waterFrequencyDays |-> 1, notes |-> "n"],
      [name |-> "Ivy", type |-> "Ivy", location |-> ""],
      [name |-> "Rex", type |-> "", waterFrequencyDays |-> -1] }

PlainAddArgs ==
    { [name |-> "Fernie", type |-> "Boston Fern", location |-> "window",
       waterFrequencyDays |-> 1, notes |-> "n"] }

PlainUpdateArgs == { <<>>, [waterFrequencyDays |-> 2] }

UpdateArgs ==
    { <<>>,
      [waterFrequencyDays |-> -1],
      [name |-> "Ivy", location |-> ""] }

WaterArgs == { [plantId |-> i] : i \in Ids }
             \cup { [plantId |-> i, notes |-> "extra"] : i \in Ids }

Limits == {0, 1}

HistoryArgs == { [plantId |-> i] : i \in Ids }
               \cup { [plantId |-> i, limit |-> n] : i \in Ids, n \in Limits }

Symptoms == {"brown leaves"}

ScheduleArgs ==
    { [description |-> "water Fernie",
       when |-> [type |-> "scheduled", date |-> "2026-11-04T08:00:00Z"]],
      [description |-> "",
       when |-> [type |-> "delayed", delayInSeconds |-> "30"]],
      [description |-> "water Fernie",
       when |-> [type |-> "cron", cron |-> "0 8 * * *"]],
      [description |-> "", when |-> [type |-> "no-schedule"]] }

\* the first argument of agent.schedule: when.date, when.delayInSeconds or
\* when.cron
ScheduleInput(when) ==
    IF when.type = "scheduled" THEN [date |-> when.date]
    ELSE IF when.type = "delayed" THEN [delayInSeconds |-> when.delayInSeconds]
    ELSE [cron |-> when.cron]

NoOp == [op |-> "init"]

\* -------------------------------------------------------------------- Init
Init ==
    /\ plants = <<>>
    /\ watering_history = <<>>
    /\ health_issues = <<>>
    /\ now = 0
    /\ idCounter = 0
    /\ scheduled = <<>>
    /\ last = NoOp
    /\ bookPlants = <<>>
    /\ currentPage = 0
    /\ isFlipping = FALSE
    /\ flipTimer = NULL

\* ----------------------------------------------------------------- actions
\* the wall clock advances
Tick ==
    /\ now < MaxTime
    /\ now' = now + 1
    /\ UNCHANGED <<plants, watering_history, health_issues, idCounter,
                   scheduled, book, last>>

\* tool addPlant: generateId(), agent.addPlant(...), success message
AddPlantTool(args) ==
    /\ idCounter < MaxIds
    /\ Len(plants) < MaxPlants
    /\ idCounter' = idCounter + 1
    /\ plants' = addPlant(
          [id |-> idCounter + 1,
           waterFrequencyDays |->
               OrDefault(args, "waterFrequencyDays", DefaultWaterFrequencyDays)]
          @@ args)
    /\ last' = [op |-> "addPlant", kind |-> "ok", plantId |-> idCounter + 1,
                args |-> args,
                everyDays |->
                    OrDefault(args, "waterFrequencyDays", DefaultWaterFrequencyDays)]
    /\ UNCHANGED <<watering_history, health_issues, now, scheduled, book>>

\* mutant: health_issues has no cascading foreign key
RemovePlantTool_IssuesKept(plantId) ==
    /\ IF getPlant(plantId) = NULL
       THEN /\ last' = [op |-> "removePlant", kind |-> "notFound",
                        plantId |-> plantId]
            /\ UNCHANGED <<plants, watering_history, health_issues>>
       ELSE /\ plants' = DeletePlant(plantId)
            /\ watering_history' = Cascade(watering_history, plantId)
            /\ UNCHANGED health_issues
            /\ last' = [op |-> "removePlant", kind |-> "ok",
                        plantId |-> plantId, plant |-> getPlant(plantId)[1]]
    /\ UNCHANGED <<now, idCounter, scheduled, book>>

\* tool removePlant -> agent.removePlant(plantId)
RemovePlantTool(plantId) ==
    /\ IF getPlant(plantId) = NULL
       THEN /\ last' = [op |-> "removePlant", kind |-> "notFound",
                        plantId |-> plantId]
            /\ UNCHANGED <<plants, watering_history, health_issues>>
       ELSE /\ plants' = DeletePlant(plantId)
            /\ watering_history' = Cascade(watering_history, plantId)
            /\ health_issues' = Cascade(health_issues, plantId)
            /\ last' = [op |-> "removePlant", kind |-> "ok",
                        plantId |-> plantId, plant |-> getPlant(plantId)[1]]
    /\ UNCHANGED <<now, idCounter, scheduled, book>>

\* tool waterPlant -> agent.getPlant, agent.waterPlant(plantId, notes)
WaterPlantTool(args) ==
    IF getPlant(args.plantId) = NULL
    THEN /\ last' = [op |-> "waterPlant", kind |-> "notFound",
                     plantId |-> args.plantId]
         /\ UNCHANGED <<plants, watering_history, health_issues, now,
                        idCounter, scheduled, book>>
    ELSE /\ idCounter < MaxIds
         /\ idCounter' = idCounter + 1
         /\ watering_history' = waterPlant(args.plantId, args).history
         /\ plants' = waterPlant(args.plantId, args).plants
         /\ last' = [op |-> "waterPlant", kind |-> "ok",
                     plantId |-> args.plantId,
                     event |-> waterPlant(args.plantId, args).result]
         /\ UNCHANGED <<health_issues, now, scheduled, book>>

\* tool checkWateringNeeds -> agent.getPlantsNeedingWater()
CheckWateringNeeds ==
    /\ last' = IF getPlantsNeedingWater = <<>>
               THEN [op |-> "checkWateringNeeds", kind |-> "none"]
               ELSE [op |-> "checkWateringNeeds", kind |-> "rows",
                     rows |-> getPlantsNeedingWater]
    /\ UNCHANGED <<plants, watering_history, health_issues, now, idCounter,
                   scheduled, book>>

\* tool getWateringHistory -> agent.getPlant, agent.getWateringHistory
GetWateringHistoryTool(args) ==
    /\ last' =
         IF getPlant(args.plantId) = NULL
         THEN [op |-> "getWateringHistory", kind |-> "notFound",
               plantId |-> args.plantId]
         ELSE LET history == getWateringHistory(
                                 args.plantId, OrDefault(args, "limit", DefaultLimit))
              IN  IF history = <<>>
                  THEN [op |-> "getWateringHistory", kind |-> "none",
                        plantId |-> args.plantId]
                  ELSE [op |-> "getWateringHistory", kind |-> "rows",
                        plantId |-> args.plantId, rows |-> history]
    /\ UNCHANGED <<plants, watering_history, health_issues, now, idCounter,
                   scheduled, book>>

\* mutant: the issue is recorded without looking the plant up
DiagnosePlantIssue_Unguarded(plantId, symptoms) ==
    /\ idCounter < MaxIds
    /\ idCounter' = idCounter + 1
    /\ health_issues' = recordHealthIssue(plantId, symptoms)
    /\ last' = [op |-> "diagnosePlantIssue", kind |-> "ok", plantId |-> plantId]
    /\ UNCHANGED <<plants, watering_history, now, scheduled, book>>

\* tool diagnosePlantIssue -> agent.getPlant, agent.recordHealthIssue
DiagnosePlantIssue(plantId, symptoms) ==
    IF getPlant(plantId) = NULL
    THEN /\ last' = [op |-> "diagnosePlantIssue", kind |-> "notFound",
                     plantId |-> plantId]
         /\ UNCHANGED <<plants, watering_history, health_issues, now,
                        idCounter, scheduled, book>>
    ELSE /\ idCounter < MaxIds
         /\ idCounter' = idCounter + 1
         /\ health_issues' = recordHealthIssue(plantId, symptoms)
         /\ last' = [op |-> "diagnosePlantIssue", kind |-> "ok",
                     plantId |-> plantId]
         /\ UNCHANGED <<plants, watering_history, now, scheduled, book>>

\* tool viewHealthIssues -> agent.getPlant, agent.getHealthIssues
ViewHealthIssues(plantId, includeResolved) ==
    /\ last' =
         IF getPlant(plantId) = NULL
         THEN [op |-> "viewHealthIssues", kind |-> "notFound",
               plantId |-> plantId]
         ELSE LET issues == getHealthIssues(plantId, includeResolved)
              IN  IF issues = <<>>
                  THEN [op |-> "viewHealthIssues", kind |-> "none",
                        plantId |-> plantId]
                  ELSE [op |-> "viewHealthIssues", kind |-> "rows",
                        plantId |-> plantId, rows |-> issues]
    /\ UNCHANGED <<plants, watering_history, health_issues, now, idCounter,
                   scheduled, book>>

\* tool scheduleWateringReminder -> agent.getPlant, agent.schedule(input,
\* "executeTask", description || `Time to water ${plant.name}!`)
ScheduleWateringReminder(plantId, scheduleDetails) ==
    LET when == scheduleDetails.when
    IN
    IF getPlant(plantId) = NULL
    THEN /\ last' = [op |-> "scheduleWateringReminder", kind |-> "notFound",
                     plantId |-> plantId]
         /\ UNCHANGED <<plants, watering_history, health_issues, now,
                        idCounter, scheduled, book>>
    ELSE IF when.type = "no-schedule"
    THEN /\ last' = [op |-> "scheduleWateringReminder", kind |-> "invalid",
                     plantId |-> plantId]
         /\ UNCHANGED <<plants, watering_history, health_issues, now,
                        idCounter, scheduled, book>>
    ELSE /\ Len(scheduled) < MaxSchedules
         /\ scheduled' = Append(scheduled,
               [input |-> ScheduleInput(when),
                callback |-> "executeTask",
                payload |-> IF scheduleDetails.description # ""
                            THEN <<scheduleDetails.description>>
                            ELSE <<"Time to water ", getPlant(plantId)[1].name, "!">>])
         /\ last' = [op |-> "scheduleWateringReminder", kind |-> "ok",
                     plantId |-> plantId, type |-> when.type]
         /\ UNCHANGED <<plants, watering_history, health_issues, now,
                        idCounter, book>>

\* PlantCare.updatePlant(plantId, updates); `before` is the row it read first
UpdatePlant(plantId, updates) ==
    /\ IF getPlant(plantId) = NULL
       THEN /\ last' = [op |-> "updatePlant", kind |-> "notFound",
                        plantId |-> plantId]
            /\ UNCHANGED plants
       ELSE IF DOMAIN updates = {}
       THEN /\ last' = [op |-> "updatePlant", kind |-> "ok",
                        plantId |-> plantId, updates |-> updates,
                        before |-> getPlant(plantId)[1],
                        plant |-> getPlant(plantId)[1]]
            /\ UNCHANGED plants
       ELSE /\ plants' = UpdateRow(plantId, updates)
            /\ last' = [op |-> "updatePlant", kind |-> "ok",
                        plantId |-> plantId, updates |-> updates,
                        before |-> getPlant(plantId)[1],
                        plant |-> SetFields(getPlant(plantId)[1], updates)]
    /\ UNCHANGED <<watering_history, health_issues, now, idCounter, scheduled, book>>

\* tool listPlants -> agent.getPlants()
ListPlants ==
    /\ last' = IF getPlants = <<>>
               THEN [op |-> "listPlants", kind |-> "none"]
               ELSE [op |-> "listPlants", kind |-> "rows", rows |-> getPlants]
    /\ UNCHANGED <<plants, watering_history, health_issues, now, idCounter,
                   scheduled, book>>

\* the tools whose execute() wraps its agent calls in try / catch
ToolOps ==
    { "addPlant", "listPlants", "removePlant", "waterPlant",
      "checkWateringNeeds", "getWateringHistory", "diagnosePlantIssue",
      "viewHealthIssues", "scheduleWateringReminder", "getScheduledReminders",
      "cancelReminder" }

\* mutant: the tool has no try / catch
ToolCallThrows_Uncaught(op) ==
    /\ op = "addPlant" => idCounter < MaxIds
    /\ idCounter' = IF op = "addPlant" THEN idCounter + 1 ELSE idCounter
    /\ last' = [op |-> op, kind |-> "exception", threw |-> TRUE]
    /\ UNCHANGED <<plants, watering_history, health_issues, now, scheduled, book>>

\* the first agent call of tool op throws before it has written anything: the
\* catch block returns `Error ...: ${error}`. addPlant has called generateId()
\* by then.
ToolCallThrows(op) ==
    /\ op = "addPlant" => idCounter < MaxIds
    /\ idCounter' = IF op = "addPlant" THEN idCounter + 1 ELSE idCounter
    /\ last' = [op |-> op, kind |-> "error", threw |-> TRUE]
    /\ UNCHANGED <<plants, watering_history, health_issues, now, scheduled, book>>

\* tool waterPlant on a stored plant when a statement of agent.waterPlant
\* throws: the INSERT (nothing is written) or the UPDATE (the INSERT has been
\* executed; there is no transaction around the two). The tool's catch block
\* returns the error message.
WaterPlantThrows(args, stmt) ==
    /\ getPlant(args.plantId) # NULL
    /\ idCounter < MaxIds
    /\ idCounter' = idCounter + 1
    /\ watering_history' = IF stmt = "update"
                           THEN waterPlant(args.plantId, args).history
                           ELSE watering_history
    /\ last' = [op |-> "waterPlant", kind |-> "error", threw |-> TRUE,
                plantId |-> args.plantId]
    /\ UNCHANGED <<plants, health_issues, now, scheduled, book>>

\* GET /api/plants: { plants: await stub.getPlants() }, or { plants: [] } when
\* that throws
ApiPlants(throws) ==
    /\ last' = [op |-> "/api/plants", kind |-> "json", threw |-> throws,
                list |-> IF throws THEN <<>> ELSE getPlants]
    /\ UNCHANGED <<plants, watering_history, health_issues, now, idCounter,
                   scheduled, book>>

\* GET /api/schedules: { schedules: await stub.getSchedules() }, the
\* framework's list, or { schedules: [] } when that throws
ApiSchedules(throws) ==
    /\ last' = IF throws
               THEN [op |-> "/api/schedules", kind |-> "json", threw |-> TRUE,
                     list |-> <<>>]
               ELSE [op |-> "/api/schedules", kind |-> "json", threw |-> FALSE]
    /\ UNCHANGED <<plants, watering_history, health_issues, now, idCounter,
                   scheduled, book>>

\* ---------------------------------------------------- PlantBook component
\* const pages = [{ type: "cover" }, ...plants.map(plant => ({ type: "plant",
\* plant }))]
pages ==
    <<[type |-> "cover"]>>
    \o [i \in 1..Len(bookPlants) |-> [type |-> "plant", plant |-> bookPlants[i]]]

\* fetchData(): GET /api/plants, then setPlants(plantsData.plants || []); the
\* endpoint answers { plants: [] } when getPlants throws. currentPage is not
\* touched. (schedules and isLoading do not enter the page arithmetic.)
fetchData(throws) ==
    /\ bookPlants' = IF throws THEN <<>> ELSE getPlants
    /\ UNCHANGED <<plants, watering_history, health_issues, now, idCounter,
                   scheduled, last, currentPage, isFlipping, flipTimer>>

\* nextPage(): guarded click; the timeout callback closes over currentPage + 1
nextPage ==
    /\ currentPage < Len(pages) - 1
    /\ ~isFlipping
    /\ isFlipping' = TRUE
    /\ flipTimer' = Val(currentPage + 1)
    /\ UNCHANGED <<plants, watering_history, health_issues, now, idCounter,
                   scheduled, last, bookPlants, currentPage>>

\* prevPage(): guarded click; the timeout callback closes over currentPage - 1
prevPage ==
    /\ currentPage > 0
    /\ ~isFlipping
    /\ isFlipping' = TRUE
    /\ flipTimer' = Val(currentPage - 1)
    /\ UNCHANGED <<plants, watering_history, health_issues, now, idCounter,
                   scheduled, last, bookPlants, currentPage>>

\* the 600 ms timeout expires: setCurrentPage(<captured value>),
\* setIsFlipping(false)
FlipTimeout ==
    /\ flipTimer # NULL
    /\ currentPage' = flipTimer[1]
    /\ isFlipping' = FALSE
    /\ flipTimer' = NULL
    /\ UNCHANGED <<plants, watering_history, health_issues, now, idCounter,
                   scheduled, last, bookPlants>>

\* every operation, on the plain inputs
Next ==
    \/ Tick
    \/ \E args \in PlainAddArgs : AddPlantTool(args)
    \/ \E plantId \in Ids : RemovePlantTool(plantId)
    \/ \E args \in WaterArgs : WaterPlantTool(args)
    \/ CheckWateringNeeds
    \/ \E args \in HistoryArgs : GetWateringHistoryTool(args)
    \/ \E plantId \in Ids, symptoms \in Symptoms :
          DiagnosePlantIssue(plantId, symptoms)
    \/ \E plantId \in Ids, includeResolved \in BOOLEAN :
          ViewHealthIssues(plantId, includeResolved)
    \/ \E plantId \in Ids, scheduleDetails \in ScheduleArgs :
          ScheduleWateringReminder(plantId, scheduleDetails)
    \/ \E plantId \in Ids, updates \in PlainUpdateArgs :
          UpdatePlant(plantId, updates)

Spec == Init /\ [][Next]_vars

\* the operations that write the plant store, and the due check
NextStore ==
    \/ Tick
    \/ \E args \in StoreAddArgs : AddPlantTool(args)
    \/ \E plantId \in Ids : RemovePlantTool(plantId)
    \/ \E args \in WaterArgs : WaterPlantTool(args)
    \/ CheckWateringNeeds
    \/ \E plantId \in Ids, symptoms \in Symptoms :
          DiagnosePlantIssue(plantId, symptoms)

SpecStore == Init /\ [][NextStore]_vars

\* the plant records: every addPlant and updatePlant input, and watering
NextEdit ==
    \/ Tick
    \/ \E args \in AddArgs : AddPlantTool(args)
    \/ \E plantId \in Ids, updates \in UpdateArgs : UpdatePlant(plantId, updates)
    \/ \E args \in WaterArgs : WaterPlantTool(args)
    \/ CheckWateringNeeds

SpecEdit == Init /\ [][NextEdit]_vars

\* the operations under failures of the calls they make
NextFault ==
    \/ Tick
    \/ \E args \in PlainAddArgs : AddPlantTool(args)
    \/ \E args \in WaterArgs : WaterPlantTool(args)
    \/ ListPlants
    \/ \E op \in ToolOps : ToolCallThrows(op)
    \/ \E args \in WaterArgs, stmt \in {"insert", "update"} :
          WaterPlantThrows(args, stmt)
    \/ \E throws \in BOOLEAN : ApiPlants(throws)
    \/ \E throws \in BOOLEAN : ApiSchedules(throws)

SpecFault == Init /\ [][NextFault]_vars

\* the PlantBook component over a store whose plants come and go
NextBook ==
    \/ \E args \in PlainAddArgs : AddPlantTool(args)
    \/ \E plantId \in Ids : RemovePlantTool(plantId)
    \/ \E throws \in BOOLEAN : fetchData(throws)
    \/ nextPage
    \/ prevPage
    \/ FlipTimeout

SpecBook == Init /\ [][NextBook]_vars

\* ================================================================= claims

\* limits a caller may pass to getWateringHistory (-1: no limit)
SomeLimits == {-1, 0, 1, 2, DefaultLimit}

\* C1: after removePlant(P.id) has succeeded, getWateringHistory(P.id, n) is
\* empty for every n and getHealthIssues(P.id, TRUE) is empty.
C1_RemovedPlantHasNoHistory ==
    (last.op = "removePlant" /\ last.kind = "ok") =>
        /\ \A n \in SomeLimits : getWateringHistory(last.plantId, n) = <<>>
        /\ getHealthIssues(last.plantId, TRUE) = <<>>

\* a plant that had been watered was removed, after generateId() had been
\* called as often as the model allows
C1_Witness ==
    /\ last.op = "removePlant"
    /\ last.kind = "ok"
    /\ last.plant.last_watered # NULL
    /\ idCounter = MaxIds

\* whole days elapsed since instant t
DaysSince(t) == (now - t) \div TicksPerDay

InResult(rows, plantId) == \E j \in 1..Len(rows) : rows[j].id = plantId

\* C2: at every instant, getPlantsNeedingWater() contains a stored plant iff
\* its last_watered is null or the days elapsed since last_watered are at
\* least its water frequency.
C2_DueIffElapsed ==
    \A i \in 1..Len(plants) :
        InResult(getPlantsNeedingWater, plants[i].id) <=>
            \/ plants[i].last_watered = NULL
            \/ DaysSince(plants[i].last_watered[1]) >= plants[i].water_frequency_days

\* a watered plant with a positive frequency has become due again
C2_Witness ==
    \E i \in 1..Len(plants) :
        /\ plants[i].last_watered # NULL
        /\ plants[i].water_frequency_days > 0
        /\ InResult(getPlantsNeedingWater, plants[i].id)

\* C3: right after waterPlant(id, notes) on an existing plant, getPlant(id)
\* shows last_watered equal to the wateredAt of the event that was returned
\* and stored.
C3_LastWateredIsEventTime ==
    (last.op = "waterPlant" /\ last.kind = "ok") =>
        /\ getPlant(last.plantId) # NULL
        /\ getPlant(last.plantId)[1].last_watered = Val(last.event.wateredAt)
        /\ \E k \in 1..Len(watering_history) :
              /\ watering_history[k].id = last.event.wateringId
              /\ watering_history[k].plant_id = last.plantId
              /\ watering_history[k].watered_at = last.event.wateredAt

\* a second watering of the same plant, later than the first
C3_Witness ==
    /\ last.op = "waterPlant"
    /\ last.kind = "ok"
    /\ \E k \in 1..Len(watering_history) :
          /\ watering_history[k].plant_id = last.plantId
          /\ watering_history[k].watered_at < last.event.wateredAt

\* C4: updatePlant(id, {waterFrequencyDays: v}) with v <= 0 on an existing
\* plant returns a ValidationError and leaves the stored plant unchanged.
C4_NonPositiveUpdateRejected ==
    (/\ last.op = "updatePlant"
     /\ last.kind # "notFound"
     /\ "waterFrequencyDays" \in DOMAIN last.updates
     /\ last.updates.waterFrequencyDays <= 0) =>
        /\ last.kind = "validationError"
        /\ getPlant(last.plantId) = Val(last.before)

\* C5: every stored plant has water_frequency_days > 0.
C5_FrequencyPositive ==
    \A i \in 1..Len(plants) : plants[i].water_frequency_days > 0

\* the inputs addPlant is to refuse
Refused(args) ==
    \/ args.name = ""
    \/ args.type = ""
    \/ ("waterFrequencyDays" \in DOMAIN args /\ args.waterFrequencyDays <= 0)

\* C6: addPlant fails with a ValidationError and stores no plant when the name
\* or the type is empty or waterFrequencyDays <= 0; with waterFrequencyDays
\* omitted it stores the plant with frequency 7.
C6_AddPlantValidates ==
    (last.op = "addPlant") =>
        /\ Refused(last.args) =>
              /\ last.kind = "validationError"
              /\ getPlant(last.plantId) = NULL
        /\ (~Refused(last.args) /\ "waterFrequencyDays" \notin DOMAIN last.args) =>
              /\ getPlant(last.plantId) # NULL
              /\ getPlant(last.plantId)[1].water_frequency_days = 7

\* a call of an operation that names plant i
OnPlant(i) ==
    \/ RemovePlantTool(i)
    \/ \E args \in WaterArgs : args.plantId = i /\ WaterPlantTool(args)
    \/ \E args \in HistoryArgs : args.plantId = i /\ GetWateringHistoryTool(args)
    \/ \E symptoms \in Symptoms : DiagnosePlantIssue(i, symptoms)
    \/ \E includeResolved \in BOOLEAN : ViewHealthIssues(i, includeResolved)
    \/ \E scheduleDetails \in ScheduleArgs :
          ScheduleWateringReminder(i, scheduleDetails)
    \/ \E updates \in PlainUpdateArgs : UpdatePlant(i, updates)

\* C10: an operation on a plant id that is not in the store returns a
\* not-found result and changes neither the tables nor the reminders asked of
\* the scheduler.
C10_UnknownPlantIsNotFound ==
    [][\A i \in Ids :
          (getPlant(i) = NULL /\ OnPlant(i)) =>
              /\ last'.kind = "notFound"
              /\ last'.plantId = i
              /\ UNCHANGED <<plants, watering_history, health_issues,
                             scheduled, idCounter>>]_vars

\* watering was asked for a plant that is not stored, while the store holds
\* another plant
C10_Witness ==
    /\ last.op = "waterPlant"
    /\ last.kind = "notFound"
    /\ plants # <<>>
    /\ getPlant(last.plantId) = NULL

\* C11: a plant with frequency d that was last watered at t is absent from
\* getPlantsNeedingWater() at every instant before t + d days and present at
\* every instant from t + d days on; a plant just added is present.
C11_AbsentThenDue ==
    /\ \A i \in 1..Len(plants) :
          plants[i].last_watered # NULL =>
              LET dueAt == plants[i].last_watered[1]
                           + plants[i].water_frequency_days * TicksPerDay
              IN  /\ now < dueAt => ~InResult(getPlantsNeedingWater, plants[i].id)
                  /\ now >= dueAt => InResult(getPlantsNeedingWater, plants[i].id)
    /\ (last.op = "addPlant" /\ getPlant(last.plantId) # NULL) =>
          InResult(getPlantsNeedingWater, last.plantId)

\* the very instant t + d days of a watered plant with d > 0
C11_Witness ==
    \E i \in 1..Len(plants) :
        /\ plants[i].last_watered # NULL
        /\ plants[i].water_frequency_days > 0
        /\ now = plants[i].last_watered[1]
                 + plants[i].water_frequency_days * TicksPerDay
        /\ InResult(getPlantsNeedingWater, plants[i].id)

StoredIds == { plants[i].id : i \in 1..Len(plants) }

\* C12: every watering_history row and every health_issues row names a plant
\* that is in the store.
C12_NoOrphanedRows ==
    /\ \A k \in 1..Len(watering_history) :
          watering_history[k].plant_id \in StoredIds
    /\ \A k \in 1..Len(health_issues) : health_issues[k].plant_id \in StoredIds

\* a watered plant was removed and another plant is still stored
C12_Witness ==
    /\ last.op = "removePlant"
    /\ last.kind = "ok"
    /\ last.plant.last_watered # NULL
    /\ plants # <<>>

\* C14: a health issue has resolved_at set iff it is resolved, and the issue
\* recordHealthIssue creates is unresolved with resolved_at null.
C14_ResolvedAtIffResolved ==
    /\ \A k \in 1..Len(health_issues) :
          (health_issues[k].resolved_at # NULL) <=> (health_issues[k].resolved # 0)
    /\ (last.op = "diagnosePlantIssue" /\ last.kind = "ok") =>
          /\ health_issues # <<>>
          /\ health_issues[Len(health_issues)].resolved = 0
          /\ health_issues[Len(health_issues)].resolved_at = NULL

\* two issues are stored
C14_Witness == Len(health_issues) >= 2

C18_DiagnoseOnlyRecords ==
    [][\A i \in Ids, symptoms \in Symptoms :
          (getPlant(i) # NULL /\ DiagnosePlantIssue(i, symptoms)) =>
              /\ Len(health_issues') = Len(health_issues) + 1
              /\ SubSeq(health_issues', 1, Len(health_issues)) = health_issues
              /\ health_issues'[Len(health_issues')].plant_id = i
              /\ health_issues'[Len(health_issues')].issue_description = symptoms
              /\ health_issues'[Len(health_issues')].diagnosis = NULL
              /\ health_issues'[Len(health_issues')].resolved = 0
              /\ UNCHANGED <<plants, watering_history, scheduled>>]_vars

\* an issue was recorded for a plant while a watering event is stored
C18_Witness ==
    /\ last.op = "diagnosePlantIssue"
    /\ last.kind = "ok"
    /\ watering_history # <<>>
    /\ Len(health_issues) = 1

Min(a, b) == IF a <= b THEN a ELSE b

\* C15: the getWateringHistory tool returns only events of the plant asked
\* for, most recent first, and as many as min(limit, number of its events),
\* where an omitted limit is 10.
C15_HistoryTruncatedToLimit ==
    [][\A args \in HistoryArgs :
          (getPlant(args.plantId) # NULL /\ GetWateringHistoryTool(args)) =>
              LET rows  == IF last'.kind = "rows" THEN last'.rows ELSE <<>>
                  limit == IF "limit" \in DOMAIN args THEN args.limit
                           ELSE DefaultLimit
                  count == Len(SelectSeq2(watering_history, args.plantId))
              IN  /\ Len(rows) = Min(limit, count)
                  /\ \A k \in 1..Len(rows) : rows[k].plant_id = args.plantId
                  /\ \A k \in 1..(Len(rows) - 1) :
                        rows[k].watered_at >= rows[k + 1].watered_at]_vars

\* C13: waterPlant is atomic under storage failure: no state has a watering
\* event stored whose plant's last_watered was not set by it.
C13_WaterPlantAtomic ==
    \A k \in 1..Len(watering_history) :
        LET p == getPlant(watering_history[k].plant_id)
        IN  p # NULL =>
                /\ p[1].last_watered # NULL
                /\ p[1].last_watered[1] >= watering_history[k].watered_at

C23_CurrentPageInRange ==
    /\ currentPage >= 0
    /\ currentPage <= Len(pages) - 1

\* the value column col of row new must have after updates, given row old
Supplied(updates, key, col, old, new, value) ==
    IF key \in DOMAIN updates THEN new[col] = value ELSE new[col] = old[col]

\* C22: updatePlant changes exactly the supplied fields of the named plant and
\* returns the updated row; id, last_watered, created_at, the unsupplied
\* fields, the other plants and the watering, health and schedule data stay;
\* with no field it changes nothing and returns the stored row; on an unknown
\* id it returns null and changes nothing.
C22_UpdateChangesOnlySupplied ==
    [][\A plantId \in Ids, updates \in UpdateArgs :
          UpdatePlant(plantId, updates) =>
              /\ UNCHANGED <<watering_history, health_issues, scheduled>>
              /\ Len(plants') = Len(plants)
              /\ getPlant(plantId) = NULL =>
                    /\ plants' = plants
                    /\ last'.kind = "notFound"
              /\ DOMAIN updates = {} => plants' = plants
              /\ \A i \in 1..Len(plants) :
                    IF plants[i].id # plantId
                    THEN plants'[i] = plants[i]
                    ELSE LET old == plants[i]
                             new == plants'[i]
                             u   == updates
                         IN  /\ new.id = old.id
                             /\ new.last_watered = old.last_watered
                             /\ new.created_at = old.created_at
                             /\ Supplied(u, "name", "name", old, new,
                                         IF "name" \in DOMAIN u
                                         THEN u.name ELSE "")
                             /\ Supplied(u, "type", "type", old, new,
                                         IF "type" \in DOMAIN u
                                         THEN u.type ELSE "")
                             /\ Supplied(u, "location", "location", old, new,
                                         IF "location" \in DOMAIN u
                                         THEN Val(u.location) ELSE NULL)
                             /\ Supplied(u, "lightRequirement",
                                         "light_requirement", old, new,
                                         IF "lightRequirement" \in DOMAIN u
                                         THEN Val(u.lightRequirement) ELSE NULL)
                             /\ Supplied(u, "waterFrequencyDays",
                                         "water_frequency_days", old, new,
                                         IF "waterFrequencyDays" \in DOMAIN u
                                         THEN u.waterFrequencyDays ELSE 0)
                             /\ Supplied(u, "notes", "notes", old, new,
                                         IF "notes" \in DOMAIN u
                                         THEN Val(u.notes) ELSE NULL)
                             /\ last'.kind = "ok"
                             /\ last'.plant = new]_vars

\* a watered plant, one of two, has had its name and location updated
C22_Witness ==
    /\ last.op = "updatePlant"
    /\ last.kind = "ok"
    /\ DOMAIN last.updates = {"name", "location"}
    /\ last.before.last_watered # NULL
    /\ last.before.name # last.plant.name
    /\ Len(plants) = 2
    /\ watering_history # <<>>

\* the watered_at values of the plant's watering_history rows
WateredAt(plantId) ==
    { watering_history[k].watered_at :
        k \in { j \in 1..Len(watering_history) :
                  watering_history[j].plant_id = plantId } }

\* C24: for every stored plant, last_watered is null iff the plant has no
\* watering_history row, and otherwise it is the greatest watered_at of the
\* plant's rows.
C24_LastWateredIsLatestEvent ==
    \A i \in 1..Len(plants) :
        LET times == WateredAt(plants[i].id)
        IN  /\ (plants[i].last_watered = NULL) <=> (times = {})
            /\ plants[i].last_watered # NULL =>
                  /\ plants[i].last_watered[1] \in times
                  /\ \A t \in times : t <= plants[i].last_watered[1]
====
